---- MODULE Spec2Model ----
(***************************************************************************)
(* observe-path: Observer (per (object, property) change detection), Link  *)
(* (one segment of a bound path) and Path (the public facade).            *)
(*                                                                         *)
(* The JavaScript heap is modelled as a fixed set of objects, each         *)
(* property with its own descriptor (data, accessor or absent).  Every     *)
(* method of the three classes is an operator over a machine record        *)
(*   [heap, desc, obs, bind, calls, err, ret]                              *)
(* that is threaded through the calls in the order the code makes them; a  *)
(* thrown exception sets err and every later statement of the enclosing    *)
(* frames is skipped.                                                      *)
(***************************************************************************)
EXTENDS Integers, Sequences, FiniteSets, TLC

VARIABLES
    heap,    \* heap[o][p]: value held by the data descriptor of o.p, or by
             \* the variable the original accessor of o.p reads and writes
    desc,    \* desc[o][p]: the own property descriptor of o.p
    obs,     \* obs[o][p]: the Observer registered in observers[p] for o
    bind,    \* bind[P][r]: entry of P.observed for root r (the head Link)
    calls,   \* user callbacks invoked by the last operation, in order
    threw,   \* the last operation ended by throwing
    ret,     \* value returned by the last operation
    op,      \* the last operation and its arguments
    steps,   \* number of operations performed so far
    before   \* descriptor and value of the property observed directly, as
             \* they were when its first listener was registered and as the
             \* writes since then leave the value

vars == <<heap, desc, obs, bind, calls, threw, ret, op, steps, before>>

(* ------------------------------ bounds -------------------------------- *)

MaxSteps == 5
MaxCallbacks == 2
\* operations on the property observed directly, and listeners on it
MaxObserverSteps == 6
MaxListeners == 3
\* operations on a path whose terminal property has any shape
MaxShapeSteps == 3
\* operations in a run with a callback that unsubscribes itself
MaxReentrantSteps == 4

(* ------------------------------ universe ------------------------------ *)

Obj == {"R", "A", "X", "Y"}
Prop == {"a", "b", "c"}
Undef == "undef"
\* null stands for every falsy value other than undefined (null, 0, false, ''),
\* p5 and p7 for truthy primitives.
Falsy == {"undef", "null"}
Prim == {"null", "p5", "p7"}
Val == Obj \cup Prim \cup {Undef}
Cb == {"c1", "c2"}

Truthy(v) == v \notin Falsy
IsObject(v) == v \in Obj

\* new Path('a','b','c'), new Path('a','c'), new Path('b','c')
PathSegs == [P1 |-> <<"a", "b", "c">>, P2 |-> <<"a", "c">>, P3 |-> <<"b", "c">>]
PathId == DOMAIN PathSegs
PathLen(P) == Len(PathSegs[P])

\* the (path, root) pairs the environment binds
Bindable == {<<"P1", "R">>, <<"P2", "R">>, <<"P3", "A">>}

\* the assignments  o[p] = v  the environment performs
Writes ==
    ({<<"R", "a">>} \X {"undef", "null", "A", "Y"})
    \cup ({<<"A", "b">>} \X {"undef", "p7", "X", "Y"})
    \cup ({<<"A", "c">>} \X {"p7"})
    \cup ({<<"X", "c">>} \X {"undef", "p5"})
    \cup ({<<"Y", "b">>} \X {"p7"})

\* the values the environment passes to path.set
SetValues == {"undef", "p5"}

(* --------------------------- record shapes ---------------------------- *)

\* Property descriptors.  get and set name the functions of an accessor:
\* get0 and set0 are the functions the program under observation defined,
\* oget and oset the bound Observer.get and Observer.set.  For a property that
\* is not an own property, get and set are those of the accessor inherited
\* through the prototype chain, if there is one.
DataDesc(w, e, c) ==
    [kind |-> "data", writable |-> w, enumerable |-> e, configurable |-> c,
     get |-> "none", set |-> "none"]
AccessorDesc(g, st, e, c) ==
    [kind |-> "accessor", writable |-> FALSE, enumerable |-> e, configurable |-> c,
     get |-> g, set |-> st]
Absent ==
    [kind |-> "absent", writable |-> FALSE, enumerable |-> FALSE,
     configurable |-> FALSE, get |-> "none", set |-> "none"]
Inherited ==
    [kind |-> "absent", writable |-> FALSE, enumerable |-> FALSE,
     configurable |-> FALSE, get |-> "get0", set |-> "set0"]
\* this.definition of an Observer that took the read-only short circuit
NoDefinition ==
    [kind |-> "none", writable |-> FALSE, enumerable |-> FALSE,
     configurable |-> FALSE, get |-> "none", set |-> "none"]
\* { enumerable: true, writable: true, value: undefined }: configurable is not
\* given, and Object.defineProperty keeps the one of the installed accessor.
DefaultDefinition == DataDesc(TRUE, TRUE, TRUE)
PlainData == DataDesc(TRUE, TRUE, TRUE)

NoObserver == [live |-> FALSE, value |-> Undef, cbs |-> <<>>, def |-> NoDefinition]
NoLink == [st |-> "none", o |-> "-", p |-> "-"]
DeadLink == [st |-> "dead", o |-> "-", p |-> "-"]
AtLink(o, p) == [st |-> "at", o |-> o, p |-> p]
NoBinding(P) ==
    [active |-> FALSE, cbs |-> <<>>, value |-> Undef,
     lk |-> [i \in 1..PathLen(P) |-> NoLink]]
\* the bound Link.change of the Link at index i of the chain of (P, r)
Handler(P, r, i) == [path |-> P, root |-> r, idx |-> i, cb |-> "-"]
\* a function registered directly with Observer.observe
Listener(cb) == [path |-> "-", root |-> "-", idx |-> 0, cb |-> cb]

Machine == [heap |-> heap, desc |-> desc, obs |-> obs, bind |-> bind,
            calls |-> <<>>, err |-> FALSE, ret |-> Undef]

Throw(s) == [s EXCEPT !.err = TRUE]

IndexOf(seq, x) ==
    IF \E i \in 1..Len(seq) : seq[i] = x
    THEN CHOOSE i \in 1..Len(seq) : seq[i] = x /\ \A j \in 1..(i-1) : seq[j] # x
    ELSE 0

Splice(seq, i) == [j \in 1..(Len(seq) - 1) |-> IF j < i THEN seq[j] ELSE seq[j + 1]]

(* ------------------------------ Observer ------------------------------ *)

\* callback(target, value) of a function registered with Observer.observe,
\* and set.call(target, value) of an original setter, as entries of calls
ListenerCall(o, cb, value) == [path |-> "-", root |-> o, cb |-> cb, args |-> <<o, value>>]
SetterCall(o, value) == [path |-> "-", root |-> o, cb |-> "set0", args |-> <<o, value>>]

\* Observer.get: the cached value.
Observer_get(s, o, p) == s.obs[o][p].value

\* A property read o[p]: through the installed accessor while an Observer
\* instruments o.p, through the original or inherited getter if there is one,
\* from the data descriptor otherwise.  Reading a property of a primitive, an
\* accessor without getter or a property found nowhere yields undefined.
GetProp(s, o, p) ==
    IF ~IsObject(o) THEN Undef
    ELSE IF s.desc[o][p].get = "oget" THEN Observer_get(s, o, p)
    ELSE IF s.desc[o][p].kind = "data" \/ s.desc[o][p].get = "get0" THEN s.heap[o][p]
    ELSE Undef

\* Object.getOwnPropertyDescriptor(target, property) || { default }
Definition(s, o, p) ==
    IF s.desc[o][p].kind = "absent" THEN DefaultDefinition ELSE s.desc[o][p]

\* the accessor the constructor installs over definition d
Instrumented(d) ==
    AccessorDesc(IF d.get # "none" THEN d.get ELSE "oget", "oset", d.enumerable, TRUE)

\* the constructor without the short circuit for read-only properties
Observer_constructor_eager(s, o, p) ==
    IF ~IsObject(o) \/ (s.desc[o][p].kind # "absent" /\ ~s.desc[o][p].configurable)
    THEN Throw(s)
    ELSE [s EXCEPT !.obs[o][p] =
            [live |-> TRUE, value |-> s.heap[o][p], cbs |-> <<>>,
             def |-> Definition(s, o, p)],
                   !.desc[o][p] = Instrumented(Definition(s, o, p))]

\* new Observer(target, property), with the map.set that follows it in
\* Observer.observe.  The value of the descriptor found is cached (undefined
\* for an accessor).  writable is undefined on an accessor descriptor, so
\* !writable sends every accessor, like every non-writable data property,
\* through the short circuit.  Object.defineProperty throws a TypeError on a
\* primitive and on a non-configurable own property.
Observer_constructor(s, o, p) ==
    LET Built(d, value) ==
            IF ~d.writable \/ (d.get # "none" /\ d.set = "none")
            THEN [s EXCEPT !.obs[o][p] =
                    [live |-> TRUE, value |-> value, cbs |-> <<>>, def |-> NoDefinition]]
            ELSE IF s.desc[o][p].kind # "absent" /\ ~s.desc[o][p].configurable
            THEN Throw(s)
            ELSE [s EXCEPT !.obs[o][p] =
                      [live |-> TRUE, value |-> value, cbs |-> <<>>, def |-> d],
                           !.desc[o][p] = Instrumented(d)]
    IN  IF ~IsObject(o) THEN Throw(s)
        ELSE Built(Definition(s, o, p),
                   IF s.desc[o][p].kind = "data" THEN s.heap[o][p] ELSE Undef)

\* Observer.add
Observer_add(s, o, p, h) == [s EXCEPT !.obs[o][p].cbs = Append(@, h)]

\* Observer.observe (static): find or create the Observer, then add.
\* WeakMap.get of a primitive key finds nothing.
Observer_observe(s, o, p, h) ==
    LET Add(s1) == IF s1.err THEN s1 ELSE Observer_add(s1, o, p, h)
    IN  Add(IF IsObject(o) /\ s.obs[o][p].live THEN s
            ELSE Observer_constructor(s, o, p))

\* Observer.dispose: nothing to do without this.definition; otherwise
\* definition.value = this.value if the definition has a value, and the
\* definition is put back with Object.defineProperty.
Observer_dispose(s, o, p) ==
    IF s.obs[o][p].def.kind = "none" THEN s
    ELSE [s EXCEPT !.heap[o][p] = IF s.obs[o][p].def.kind = "data"
                                  THEN s.obs[o][p].value ELSE @,
                   !.desc[o][p] = s.obs[o][p].def]

\* observers[property].delete(target).  The Observer object itself lives on
\* in every Link that still holds it in this.observer: such a Link now holds
\* an Observer that is in no registry, has no callbacks and instruments
\* nothing ("dead").
Unregister(s, o, p) ==
    [s EXCEPT !.obs[o][p] = NoObserver,
              !.bind = [P \in PathId |-> [r \in Obj |->
                  [s.bind[P][r] EXCEPT !.lk = [i \in 1..PathLen(P) |->
                      IF s.bind[P][r].lk[i] = AtLink(o, p)
                      THEN DeadLink ELSE s.bind[P][r].lk[i]]]]]]

\* Observer.remove
Observer_remove(s, o, p, h) ==
    LET Spliced(s1) == IF Len(s1.obs[o][p].cbs) = 0
                       THEN IF s1.obs[o][p].def.kind = "none"
                            THEN Observer_dispose(s1, o, p)
                            ELSE Unregister(Observer_dispose(s1, o, p), o, p)
                       ELSE s1
        Found(index) == IF index = 0 THEN s
                        ELSE Spliced([s EXCEPT !.obs[o][p].cbs = Splice(@, index)])
    IN  Found(IndexOf(s.obs[o][p].cbs, h))

\* Observer.unobserve (static)
Observer_unobserve(s, o, p, h) ==
    IF ~s.obs[o][p].live THEN s ELSE Observer_remove(s, o, p, h)

(* -------------------------------- Link -------------------------------- *)

\* Link.detach without the call of this.next.detach()
Link_detach_shallow(s, P, r, i) ==
    IF s.bind[P][r].lk[i].st = "at"
    THEN Observer_remove(s, s.bind[P][r].lk[i].o, s.bind[P][r].lk[i].p, Handler(P, r, i))
    ELSE s

\* Link.detach: this.observer is left as it is.
RECURSIVE Link_detach(_, _, _, _)
Link_detach(s, P, r, i) ==
    LET Next(s1) == IF i < PathLen(P) THEN Link_detach(s1, P, r, i + 1) ELSE s1
        From(lo) == IF lo.st = "none" THEN s
                    ELSE Next(IF lo.st = "at"
                              THEN Observer_remove(s, lo.o, lo.p, Handler(P, r, i))
                              ELSE s)  \* remove() on a dead Observer finds nothing
    IN  From(s.bind[P][r].lk[i])

\* Link.attach: the result is left in ret.
RECURSIVE Link_attach(_, _, _, _, _)
Link_attach(s, P, r, i, target) ==
    LET part == PathSegs[P][i]
        Chain(s3, value) ==
            IF i < PathLen(P)
            THEN IF Truthy(value)
                 THEN Link_attach(s3, P, r, i + 1, value)
                 ELSE [s3 EXCEPT !.ret = Undef]
            ELSE [s3 EXCEPT !.ret = value]
        Observed(s2) ==
            IF s2.err THEN s2
            ELSE Chain([s2 EXCEPT !.bind[P][r].lk[i] = AtLink(target, part)],
                       Observer_get(s2, target, part))
        Detached(s1) == Observed(Observer_observe(s1, target, part, Handler(P, r, i)))
    IN  Detached(IF s.bind[P][r].lk[i].st # "none"
                 THEN Link_detach(s, P, r, i) ELSE s)

(* -------------------------------- Path -------------------------------- *)

\* One invocation of a user callback, as Path.change makes it.
Call(P, r, cb, a1, a2) == [path |-> P, root |-> r, cb |-> cb, args |-> <<a1, a2>>]

\* Path.unobserve
Path_unobserve(s, P, r, cb) ==
    LET Spliced(s1) ==
            IF Len(s1.bind[P][r].cbs) = 0
            THEN [Link_detach(s1, P, r, 1) EXCEPT
                     !.bind[P][r] = NoBinding(P), !.ret = "true"]
            ELSE [s1 EXCEPT !.ret = "true"]
        Found(index) ==
            IF index = 0 THEN [s EXCEPT !.ret = "false"]
            ELSE Spliced([s EXCEPT !.bind[P][r].cbs = Splice(@, index)])
    IN  IF ~Truthy(r) \/ ~s.bind[P][r].active THEN [s EXCEPT !.ret = "false"]
        ELSE Found(IndexOf(s.bind[P][r].cbs, cb))

\* the callback whose body removes the callback itself: path.unobserve(root,
\* itself) for a callback of a path, Observer.unobserve(object, property,
\* itself) for a function registered with an Observer
Unsubscriber == "cu"

\* callback(value, old) for a callback of the binding of (P, r)
RunCallback(s, P, r, cb, value, old) ==
    LET Ran(s1) == IF cb = Unsubscriber THEN Path_unobserve(s1, P, r, cb) ELSE s1
    IN  Ran([s EXCEPT !.calls = Append(@, Call(P, r, cb, value, old))])

\* Path.change, the loop over link.callbacks: a for-of over the live array,
\* which is empty once the binding is gone.
RECURSIVE Path_notify(_, _, _, _, _, _)
Path_notify(s, P, r, value, old, k) ==
    IF k > Len(s.bind[P][r].cbs) THEN s
    ELSE Path_notify(RunCallback(s, P, r, s.bind[P][r].cbs[k], value, old),
                     P, r, value, old, k + 1)

\* Path.change: reads link.value before it tests link.  link.value is
\* written after the loop, to a Link that nothing reads once a callback has
\* removed the binding.
Path_change(s, P, r, value) ==
    LET Told(s1) ==
            IF s1.bind[P][r].active THEN [s1 EXCEPT !.bind[P][r].value = value] ELSE s1
        Change(link) ==
            IF ~link.active THEN Throw(s)
            ELSE IF link.value # value
            THEN Told(Path_notify(s, P, r, value, link.value, 1))
            ELSE s
    IN  Change(s.bind[P][r])

\* Link.change, the callback a Link registers with its Observer.
Link_change(s, P, r, i, target, value) ==
    LET Result(s1) == IF s1.err THEN s1 ELSE Path_change(s1, P, r, s1.ret)
        Changed(lo) ==
            IF lo.st = "at" /\ Observer_get(s, lo.o, lo.p) = value THEN s
            ELSE Result(IF i < PathLen(P) /\ Truthy(value)
                        THEN IF IsObject(value)
                             THEN Link_attach(s, P, r, i + 1, value)
                             ELSE [s EXCEPT !.ret = Undef]
                        ELSE [s EXCEPT !.ret = value])
    IN  Changed(s.bind[P][r].lk[i])

\* Observer.set, the loop over this.callbacks: a for-of over the live array.
RECURSIVE Observer_notify(_, _, _, _, _)
Observer_notify(s, o, p, value, k) ==
    LET Ran(s1, cb) ==
            IF cb = Unsubscriber THEN Observer_unobserve(s1, o, p, Listener(cb)) ELSE s1
        Invoke(h) ==
            IF h.path = "-"
            THEN Ran([s EXCEPT !.calls = Append(@, ListenerCall(o, h.cb, value))], h.cb)
            ELSE Link_change(s, h.path, h.root, h.idx, o, value)
    IN  IF s.err \/ k > Len(s.obs[o][p].cbs) THEN s
        ELSE Observer_notify(Invoke(s.obs[o][p].cbs[k]), o, p, value, k + 1)

\* the original (or inherited) setter set0 called on o: it stores the value in
\* the variable get0 reads
CallSetter(s, o, p, value) ==
    [s EXCEPT !.heap[o][p] = value, !.calls = Append(@, SetterCall(o, value))]

\* Observer.set: this.definition.set is read first, a TypeError when the
\* Observer has no definition; then the callbacks, this.value and the
\* original setter.  An Observer disposed of by one of its callbacks is
\* written all the same, but no property reads it any more.
Observer_set(s, o, p, value, silent) ==
    LET Stored(s2) ==
            IF s.obs[o][p].def.set = "set0" THEN CallSetter(s2, o, p, value) ELSE s2
        Notified(s1) ==
            IF s1.err THEN s1
            ELSE Stored(IF s1.obs[o][p].live
                        THEN [s1 EXCEPT !.obs[o][p].value = value] ELSE s1)
    IN  IF s.obs[o][p].def.kind = "none" THEN Throw(s)
        ELSE IF s.obs[o][p].value = value THEN s
        ELSE Notified(IF silent THEN s ELSE Observer_notify(s, o, p, value, 1))

\* An assignment o[p] = value in strict mode code: to the setter of an own or
\* inherited accessor, a TypeError if it has none; to a writable data
\* property, a TypeError if it is not writable; otherwise a new own data
\* property.
PutProp(s, o, p, value) ==
    LET Put(d) ==
            IF d.set = "oset" THEN Observer_set(s, o, p, value, FALSE)
            ELSE IF d.set = "set0" THEN CallSetter(s, o, p, value)
            ELSE IF d.kind = "accessor" \/ d.get # "none" THEN Throw(s)
            ELSE IF d.kind = "data"
            THEN IF d.writable THEN [s EXCEPT !.heap[o][p] = value] ELSE Throw(s)
            ELSE [s EXCEPT !.heap[o][p] = value, !.desc[o][p] = PlainData]
    IN  Put(s.desc[o][p])

\* Link.set: ret is "true" or "false".
Link_set(s, P, r, i, value, silent) ==
    LET Done(s1) == IF s1.err THEN s1 ELSE [s1 EXCEPT !.ret = "true"]
        On(lo) == IF lo.st = "none" THEN [s EXCEPT !.ret = "false"]
                  ELSE Done(IF lo.st = "at"
                            THEN Observer_set(s, lo.o, lo.p, value, silent)
                            ELSE s)  \* set() on a dead Observer changes no property
    IN  On(s.bind[P][r].lk[i])

\* Path.observe
Path_observe(s, P, r, cb) ==
    LET Attached(s2) ==
            IF s2.err THEN s2
            ELSE [s2 EXCEPT !.bind[P][r].value = s2.ret, !.ret = Undef]
        Bound(s1) == Attached(Link_attach(s1, P, r, 1, r))
    IN  IF ~Truthy(r) THEN Throw(s)
        ELSE IF ~s.bind[P][r].active
        THEN Bound([s EXCEPT !.bind[P][r] =
                       [NoBinding(P) EXCEPT !.active = TRUE, !.cbs = <<cb>>]])
        ELSE [s EXCEPT !.bind[P][r].cbs = Append(@, cb)]

\* Path.get, the walk taken when root has no binding.
RECURSIVE Path_walk(_, _, _, _)
Path_walk(s, P, root, i) ==
    LET Step(next) == IF ~Truthy(next) THEN next ELSE Path_walk(s, P, next, i + 1)
    IN  IF i > PathLen(P) THEN root
        ELSE Step(GetProp(s, root, PathSegs[P][i]))

\* Path.get
Path_get(s, P, r) ==
    IF s.bind[P][r].active THEN s.bind[P][r].value ELSE Path_walk(s, P, r, 1)

\* Path.set: link.last is the Link of the final segment.
Path_set(s, P, r, value, silent) ==
    LET Written(s1) ==
            IF s1.err THEN s1
            ELSE IF s1.ret = "false" THEN s1
            ELSE IF ~s1.bind[P][r].active THEN [s1 EXCEPT !.ret = "true"]
            ELSE [s1 EXCEPT !.bind[P][r].value = value, !.ret = "true"]
    IN  IF ~s.bind[P][r].active THEN [s EXCEPT !.ret = "false"]
        ELSE Written(Link_set(s, P, r, PathLen(P), value, silent))

(* ------------------------------ actions ------------------------------- *)

InitHeap ==
    [o \in Obj |-> [p \in Prop |->
        CASE o = "R" /\ p = "a" -> "A"
          [] o = "A" /\ p = "b" -> "X"
          [] o = "A" /\ p = "c" -> "p5"
          [] o = "X" /\ p = "c" -> "p7"
          [] o = "Y" /\ p = "b" -> "X"
          [] o = "Y" /\ p = "c" -> "p7"
          [] OTHER -> Undef]]

NoOp == [kind |-> "init", path |-> "-", root |-> "-", cb |-> "-",
         o |-> "-", p |-> "-", v |-> "-", silent |-> FALSE]

NotObserved == [d |-> NoDefinition, v |-> Undef]

Init ==
    /\ heap = InitHeap
    /\ desc = [o \in Obj |-> [p \in Prop |-> PlainData]]
    /\ before = NotObserved
    /\ obs = [o \in Obj |-> [p \in Prop |-> NoObserver]]
    /\ bind = [P \in PathId |-> [r \in Obj |-> NoBinding(P)]]
    /\ calls = <<>>
    /\ threw = FALSE
    /\ ret = Undef
    /\ op = NoOp
    /\ steps = 0

\* the state the operation leaves, whether it returned or threw
CommitWith(s, o, b) ==
    /\ heap' = s.heap
    /\ desc' = s.desc
    /\ obs' = s.obs
    /\ bind' = s.bind
    /\ calls' = s.calls
    /\ threw' = s.err
    /\ ret' = IF s.err THEN Undef ELSE s.ret
    /\ op' = o
    /\ steps' = steps + 1
    /\ before' = b

Commit(s, o) == CommitWith(s, o, before)

\* path.observe(root, cb)
Observe ==
    /\ steps < MaxSteps
    /\ \E b \in Bindable, cb \in Cb :
        /\ Len(bind[b[1]][b[2]].cbs) < MaxCallbacks
        /\ Commit(Path_observe(Machine, b[1], b[2], cb),
                  [NoOp EXCEPT !.kind = "observe", !.path = b[1], !.root = b[2], !.cb = cb])

\* path.unobserve(root, cb)
Unobserve ==
    /\ steps < MaxSteps
    /\ \E b \in Bindable, cb \in Cb :
        Commit(Path_unobserve(Machine, b[1], b[2], cb),
               [NoOp EXCEPT !.kind = "unobserve", !.path = b[1], !.root = b[2], !.cb = cb])

\* o[p] = v
Assign ==
    /\ steps < MaxSteps
    /\ \E w \in Writes :
        Commit([PutProp(Machine, w[1][1], w[1][2], w[2]) EXCEPT !.ret = Undef],
               [NoOp EXCEPT !.kind = "assign", !.o = w[1][1], !.p = w[1][2], !.v = w[2]])

\* path.set(root, v, silent)
Set ==
    /\ steps < MaxSteps
    /\ \E b \in Bindable, v \in SetValues, silent \in BOOLEAN :
        Commit(Path_set(Machine, b[1], b[2], v, silent),
               [NoOp EXCEPT !.kind = "set", !.path = b[1], !.root = b[2],
                            !.v = v, !.silent = silent])

\* path.get(root): a read, whose result is what the operation returns
Get ==
    /\ steps < MaxSteps
    /\ \E b \in Bindable :
        Commit([Machine EXCEPT !.ret = Path_get(Machine, b[1], b[2])],
               [NoOp EXCEPT !.kind = "get", !.path = b[1], !.root = b[2]])

\* path.observe(root, cb) with a root that is not an object
ObserveFalsyRoot ==
    /\ steps < MaxSteps
    /\ \E P \in PathId, r \in Falsy, cb \in Cb :
        Commit(Path_observe(Machine, P, r, cb),
               [NoOp EXCEPT !.kind = "observe", !.path = P, !.root = r, !.cb = cb])

\* path.unobserve(root, cb) with a root that is not an object
UnobserveFalsyRoot ==
    /\ steps < MaxSteps
    /\ \E P \in PathId, r \in Falsy, cb \in Cb :
        Commit(Path_unobserve(Machine, P, r, cb),
               [NoOp EXCEPT !.kind = "unobserve", !.path = P, !.root = r, !.cb = cb])

(* ----------------------- structure of the state ----------------------- *)

\* Every Link.change registered with an Observer belongs to a Link of a live
\* binding whose this.observer is that Observer, and an Observer held by a
\* Link as "at" is the registered one.
RegistryConsistent ==
    /\ \A o \in Obj, p \in Prop : \A k \in 1..Len(obs[o][p].cbs) :
          LET h == obs[o][p].cbs[k] IN
          /\ obs[o][p].live
          /\ bind[h.path][h.root].active
          /\ bind[h.path][h.root].lk[h.idx] = AtLink(o, p)
    /\ \A P \in PathId, r \in Obj : \A i \in 1..PathLen(P) :
          LET lo == bind[P][r].lk[i] IN
          lo.st = "at" => obs[lo.o][lo.p].live
    /\ \A o \in Obj, p \in Prop : obs[o][p].live => Len(obs[o][p].cbs) > 0

Next == Observe \/ Unobserve \/ Assign \/ Set

Spec == Init /\ [][Next]_vars

(* ------------------ one property, observed directly ------------------- *)

\* the property Observer.observe is called on, and the shapes it may have
Slot == <<"X", "c">>
Shapes ==
    { DataDesc(TRUE, TRUE, TRUE), DataDesc(TRUE, FALSE, TRUE),
      DataDesc(FALSE, TRUE, TRUE), DataDesc(TRUE, TRUE, FALSE),
      DataDesc(FALSE, TRUE, FALSE),
      AccessorDesc("get0", "set0", TRUE, TRUE), AccessorDesc("get0", "none", TRUE, TRUE),
      AccessorDesc("get0", "set0", TRUE, FALSE),
      Absent, Inherited }
SlotValues == {"p5", "p7"}

ObserverInit ==
    /\ \E d \in Shapes :
          /\ desc = [o \in Obj |-> [p \in Prop |->
                       IF <<o, p>> = Slot THEN d ELSE PlainData]]
          /\ heap = [o \in Obj |-> [p \in Prop |->
                       IF <<o, p>> = Slot /\ d = Absent THEN Undef ELSE InitHeap[o][p]]]
    /\ obs = [o \in Obj |-> [p \in Prop |-> NoObserver]]
    /\ bind = [P \in PathId |-> [r \in Obj |-> NoBinding(P)]]
    /\ calls = <<>>
    /\ threw = FALSE
    /\ ret = Undef
    /\ op = NoOp
    /\ steps = 0
    /\ before = NotObserved

\* Observer.observe(object, property, cb)
ObserverObserve ==
    /\ steps < MaxObserverSteps
    /\ Len(obs[Slot[1]][Slot[2]].cbs) < MaxListeners
    /\ \E cb \in Cb :
        CommitWith(Observer_observe(Machine, Slot[1], Slot[2], Listener(cb)),
                   [NoOp EXCEPT !.kind = "listen", !.o = Slot[1], !.p = Slot[2], !.cb = cb],
                   IF Len(obs[Slot[1]][Slot[2]].cbs) = 0
                   THEN [d |-> desc[Slot[1]][Slot[2]],
                         v |-> GetProp(Machine, Slot[1], Slot[2])]
                   ELSE before)

\* Observer.unobserve(object, property, cb)
ObserverUnobserve ==
    /\ steps < MaxObserverSteps
    /\ \E cb \in Cb :
        Commit(Observer_unobserve(Machine, Slot[1], Slot[2], Listener(cb)),
               [NoOp EXCEPT !.kind = "unlisten", !.o = Slot[1], !.p = Slot[2], !.cb = cb])

\* object[property] = v
Write ==
    /\ steps < MaxObserverSteps
    /\ \E v \in SlotValues :
        LET s == [PutProp(Machine, Slot[1], Slot[2], v) EXCEPT !.ret = Undef] IN
        CommitWith(s,
                   [NoOp EXCEPT !.kind = "assign", !.o = Slot[1], !.p = Slot[2], !.v = v],
                   IF s.err THEN before ELSE [before EXCEPT !.v = v])

ObserverNext == ObserverObserve \/ ObserverUnobserve \/ Write

ObserverSpec == ObserverInit /\ [][ObserverNext]_vars

(* ----------------------- vocabulary of the claims --------------------- *)

\* The resolved value of P from cur: the value reached by following the
\* segments, undefined as soon as a segment is read from a non-object.
RECURSIVE Resolve(_, _, _, _)
Resolve(s, P, cur, i) ==
    IF i > PathLen(P) THEN cur
    ELSE IF ~IsObject(cur) THEN Undef
    ELSE Resolve(s, P, GetProp(s, cur, PathSegs[P][i]), i + 1)

Resolved == [P \in PathId |-> [r \in Obj |-> Resolve(Machine, P, r, 1)]]

\* the object segment i of P is read from, starting at root r
RECURSIVE ObjAt(_, _, _)
ObjAt(P, r, i) ==
    IF i = 1 THEN r
    ELSE IF IsObject(ObjAt(P, r, i - 1))
         THEN GetProp(Machine, ObjAt(P, r, i - 1), PathSegs[P][i - 1])
         ELSE Undef

\* the (object, property) slots currently reachable from r along P
OnChain == [P \in PathId |-> [r \in Obj |->
              {<<ObjAt(P, r, i), PathSegs[P][i]>> : i \in 1..PathLen(P)}]]

\* the slots of the non-terminal segments, and the slot of the terminal one
Interm(b) == {<<ObjAt(b[1], b[2], i), PathSegs[b[1]][i]>> : i \in 1..(PathLen(b[1]) - 1)}
Terminal(b) == <<ObjAt(b[1], b[2], PathLen(b[1])), PathSegs[b[1]][PathLen(b[1])]>>

\* some intermediate segment of P from r holds a non-object
Broken(P, r) == \E i \in 2..PathLen(P) : ~IsObject(ObjAt(P, r, i))

Active(b) == bind[b[1]][b[2]].active

\* what reading o[p] and calling path.get(root) give in the current state
Props == [o \in Obj |-> [p \in Prop |-> GetProp(Machine, o, p)]]
Gets == [P \in PathId |-> [r \in Obj |-> Path_get(Machine, P, r)]]

Count(seq, x) == Cardinality({k \in 1..Len(seq) : seq[k] = x})
\* invocations, by the last operation, of the callbacks of a binding
CallsFor(b) == {k \in 1..Len(calls) : calls[k].path = b[1] /\ calls[k].root = b[2]}
CallsOf(P, r, cb) ==
    Cardinality({k \in 1..Len(calls) :
                    calls[k].path = P /\ calls[k].root = r /\ calls[k].cb = cb})

\* the operation changes the resolved value of the binding
Changed(b) == Resolved'[b[1]][b[2]] # Resolved[b[1]][b[2]]

(* ------------------------------- claims ------------------------------- *)

\* C1: a single assignment to a slot on the chain reachable from an actively
\* bound root invokes a callback registered once on that binding exactly once
\* if the resolved value of the path changes, and not at all if it does not.
NotifiedOncePerChange ==
    [][ op'.kind = "assign" =>
          \A b \in Bindable : \A cb \in Cb :
            (Active(b) /\ <<op'.o, op'.p>> \in OnChain[b[1]][b[2]]
               /\ Count(bind[b[1]][b[2]].cbs, cb) = 1)
            => CallsOf(b[1], b[2], cb)' = IF Changed(b) THEN 1 ELSE 0 ]_vars

\* C2: every invocation of a path callback passes the previously resolved
\* value first and the newly resolved value second.
OldValueThenNewValue ==
    [][ \A k \in 1..Len(calls') :
          /\ calls'[k].args[1] = bind[calls'[k].path][calls'[k].root].value
          /\ calls'[k].args[2] = bind'[calls'[k].path][calls'[k].root].value ]_vars

\* C3: while an observed path is broken, a write to a slot that is no longer
\* on its chain invokes no callback of the path and leaves path.get(root) as
\* it was.
DetachedBelowBreak ==
    [][ op'.kind = "assign" =>
          \A b \in Bindable :
            (Active(b) /\ Broken(b[1], b[2])
               /\ <<op'.o, op'.p>> \notin OnChain[b[1]][b[2]])
            => /\ CallsFor(b)' = {}
               /\ Gets'[b[1]][b[2]] = Gets[b[1]][b[2]] ]_vars

\* C4: assigning a value that is neither an object nor a function to an
\* intermediate segment of an observed path makes path.get(root) undefined
\* and hands undefined to the callbacks as the new value.
NonObjectResolvesUndefined ==
    [][ op'.kind = "assign" =>
          \A b \in Bindable :
            (Active(b) /\ <<op'.o, op'.p>> \in Interm(b) /\ ~IsObject(op'.v))
            => /\ Gets'[b[1]][b[2]] = Undef
               /\ \A k \in CallsFor(b)' : calls'[k].args[1] = Undef ]_vars

\* C5: assigning a different object to an intermediate segment of an observed
\* path stores it, and the path then resolves through the new object: the
\* value path.get(root) returns is the one reached from it, and every callback
\* is told of that value exactly when it differs from the cached one.
ReattachedToNewObject ==
    [][ op'.kind = "assign" =>
          \A b \in Bindable :
            (Active(b) /\ <<op'.o, op'.p>> \in Interm(b) /\ IsObject(op'.v)
               /\ Props[op'.o][op'.p] # op'.v)
            => /\ ~threw'
               /\ Props'[op'.o][op'.p] = op'.v
               /\ Gets'[b[1]][b[2]] = Resolved'[b[1]][b[2]]
               /\ Cardinality(CallsFor(b)') =
                     IF Gets'[b[1]][b[2]] # Gets[b[1]][b[2]]
                     THEN Len(bind[b[1]][b[2]].cbs) ELSE 0
               /\ \A k \in CallsFor(b)' : calls'[k].args[1] = Gets'[b[1]][b[2]] ]_vars

\* C6: with the paths (a,b,c) and (a,c) both observed on one root, an
\* assignment invokes each callback of each path once per registration if that
\* path's own resolved value changes, and not at all if it does not.
NoCrossTalk ==
    [][ (op'.kind = "assign" /\ Active(<<"P1", "R">>) /\ Active(<<"P2", "R">>)) =>
          \A b \in {<<"P1", "R">>, <<"P2", "R">>} : \A cb \in Cb :
            CallsOf(b[1], b[2], cb)' =
               IF Changed(b) THEN Count(bind[b[1]][b[2]].cbs, cb) ELSE 0 ]_vars

\* C7: in the assignment that follows a path.unobserve(root, cb) returning
\* true, cb is not invoked for that binding once no registration of it is
\* left, and every other registered callback of any path is invoked once per
\* registration exactly when its own resolved value changes.
UnobserveLeavesOthers ==
    [][ (op.kind = "unobserve" /\ ret = "true" /\ op'.kind = "assign") =>
          /\ (Count(bind[op.path][op.root].cbs, op.cb) = 0
                => CallsOf(op.path, op.root, op.cb)' = 0)
          /\ \A b \in Bindable : \A cb \in Cb :
               (Active(b) /\ <<b[1], b[2], cb>> # <<op.path, op.root, op.cb>>)
               => CallsOf(b[1], b[2], cb)' =
                    IF Changed(b) THEN Count(bind[b[1]][b[2]].cbs, cb) ELSE 0 ]_vars

\* C8: path.set on a root with no active binding, or whose path is broken,
\* returns false, writes no property, invokes no callback and leaves
\* path.get(root) as it was.
SetFailsWhenBroken ==
    [][ op'.kind = "set" =>
          \A b \in Bindable :
            (b = <<op'.path, op'.root>> /\ (~Active(b) \/ Broken(b[1], b[2])))
            => /\ ret' = "false"
               /\ Props' = Props
               /\ calls' = <<>>
               /\ Gets'[b[1]][b[2]] = Gets[b[1]][b[2]] ]_vars

\* C9: path.set(root, value, true) on an intact observed path stores value in
\* the terminal property, makes path.get(root) return value and invokes no
\* callback of any path.
SilentSetWrites ==
    [][ (op'.kind = "set" /\ op'.silent) =>
          \A b \in Bindable :
            (b = <<op'.path, op'.root>> /\ Active(b) /\ ~Broken(b[1], b[2]))
            => /\ Props'[Terminal(b)[1]][Terminal(b)[2]] = op'.v
               /\ Gets'[b[1]][b[2]] = op'.v
               /\ calls' = <<>> ]_vars

\* C10: path.set(root, value) on an intact observed path whose resolved value
\* differs from value stores value in the terminal property, invokes every
\* registered callback of the path once with value as the new value, makes
\* path.get(root) return value and returns true.
LoudSetNotifies ==
    [][ (op'.kind = "set" /\ ~op'.silent) =>
          \A b \in Bindable :
            (b = <<op'.path, op'.root>> /\ Active(b) /\ ~Broken(b[1], b[2])
               /\ Resolved[b[1]][b[2]] # op'.v /\ Gets[b[1]][b[2]] # op'.v)
            => /\ Props'[Terminal(b)[1]][Terminal(b)[2]] = op'.v
               /\ \A cb \in Cb :
                    CallsOf(b[1], b[2], cb)' = Count(bind[b[1]][b[2]].cbs, cb)
               /\ \A k \in CallsFor(b)' : calls'[k].args[1] = op'.v
               /\ Gets'[b[1]][b[2]] = op'.v
               /\ ret' = "true" ]_vars

\* the change handlers of the Links of binding b that some Observer holds
HandlersOf(b) ==
    {<<o, p, k>> \in Obj \X Prop \X (1..(MaxCallbacks * 3)) :
        /\ k <= Len(obs[o][p].cbs)
        /\ obs[o][p].cbs[k].path = b[1]
        /\ obs[o][p].cbs[k].root = b[2]}

\* C12: when path.unobserve removes the last callback of a binding, the root
\* leaves the binding map of the path and no change handler of the Links of
\* that binding is left with any Observer of any object.
UnobserveDetachesAll ==
    [][ (op'.kind = "unobserve" /\ ret' = "true") =>
          \A b \in Bindable :
            (b = <<op'.path, op'.root>> /\ Len(bind[b[1]][b[2]].cbs) = 1)
            => /\ ~bind'[b[1]][b[2]].active
               /\ HandlersOf(b)' = {} ]_vars

\* a binding whose chain was broken while it was observed has just lost its
\* last callback
UnobservedAfterBreak ==
    /\ op.kind = "unobserve" /\ ret = "true" /\ op.path = "P1"
    /\ ~bind["P1"]["R"].active
    /\ heap["R"]["a"] = Undef /\ heap["A"]["b"] = "Y"
    /\ steps = 4

(* ------------- paths over a terminal property of any shape ------------ *)

\* the shapes of X.c, the terminal property of R.a.b.c and of A.b.c
TerminalShapes ==
    { PlainData, DataDesc(FALSE, TRUE, TRUE), DataDesc(TRUE, TRUE, FALSE),
      AccessorDesc("get0", "none", TRUE, TRUE) }

ShapeInit ==
    /\ \E d \in TerminalShapes :
          desc = [o \in Obj |-> [p \in Prop |->
                    IF <<o, p>> = <<"X", "c">> THEN d ELSE PlainData]]
    /\ heap = InitHeap
    /\ obs = [o \in Obj |-> [p \in Prop |-> NoObserver]]
    /\ bind = [P \in PathId |-> [r \in Obj |-> NoBinding(P)]]
    /\ calls = <<>>
    /\ threw = FALSE
    /\ ret = Undef
    /\ op = NoOp
    /\ steps = 0
    /\ before = NotObserved

\* the operations of Spec, on this fixture
ShapeObserve == steps < MaxShapeSteps /\ Observe
ShapeUnobserve == steps < MaxShapeSteps /\ Unobserve
ShapeAssign == steps < MaxShapeSteps /\ Assign
ShapeSet == steps < MaxShapeSteps /\ Set
ShapeGet == steps < MaxShapeSteps /\ Get
ShapeObserveFalsyRoot == steps < MaxShapeSteps /\ ObserveFalsyRoot
ShapeUnobserveFalsyRoot == steps < MaxShapeSteps /\ UnobserveFalsyRoot

ShapeNext ==
    \/ ShapeObserve \/ ShapeUnobserve \/ ShapeAssign \/ ShapeSet \/ ShapeGet
    \/ ShapeObserveFalsyRoot \/ ShapeUnobserveFalsyRoot

ShapeSpec == ShapeInit /\ [][ShapeNext]_vars

\* C14: a path.observe that throws while attaching the chain leaves the root
\* without a binding, the callback unregistered, no change handler of the
\* chain with any Observer and every property descriptor as it was.
FailedObserveLeavesNothing ==
    [][ (op'.kind = "observe" /\ threw') =>
          \A b \in Bindable :
            b = <<op'.path, op'.root>>
            => /\ ~bind'[b[1]][b[2]].active
               /\ bind'[b[1]][b[2]].cbs = <<>>
               /\ HandlersOf(b)' = {}
               /\ desc' = desc ]_vars

\* a configurable property that cannot be written: a data property that is
\* not writable, or an accessor with a getter and no setter
ReadOnly(d) ==
    /\ d.configurable
    /\ \/ d.kind = "data" /\ ~d.writable
       \/ d.kind = "accessor" /\ d.get # "none" /\ d.set = "none"

\* C20: path.set on an active binding of an intact path whose terminal
\* property is read-only does not throw, changes no property value and calls
\* no callback.
SetOnReadOnlyIsNoOp ==
    [][ op'.kind = "set" =>
          \A b \in Bindable :
            (b = <<op'.path, op'.root>> /\ Active(b) /\ ~Broken(b[1], b[2])
               /\ IsObject(Terminal(b)[1])
               /\ ReadOnly(desc[Terminal(b)[1]][Terminal(b)[2]]))
            => /\ ~threw'
               /\ Props' = Props
               /\ calls' = <<>> ]_vars

(* ---------------- claims on a property observed directly --------------- *)

\* the listeners registered on the property, and the calls the last operation
\* made to listeners and to the original setter
Listeners == obs[Slot[1]][Slot[2]].cbs
OwnDesc == desc[Slot[1]][Slot[2]]
ListenerCalls == SelectSeq(calls, LAMBDA e : e.path = "-" /\ e.cb # "set0")
SetterCalls == SelectSeq(calls, LAMBDA e : e.path = "-" /\ e.cb = "set0")

\* C11: when the last listener of a configurable or absent property is
\* removed, the own descriptor of the property is the one it had before the
\* first listener was registered (kind, getter, setter and flags), and a data
\* property holds the last value written.
DescriptorRestored ==
    [][ (op'.kind = "unlisten" /\ Len(Listeners) > 0 /\ Len(Listeners') = 0
           /\ (before.d.kind = "absent" \/ before.d.configurable))
        => /\ OwnDesc' = before.d
           /\ before.d.kind = "data" => Props'[Slot[1]][Slot[2]] = before.v ]_vars

\* C13: Observer.observe on a property whose own descriptor is not
\* configurable throws, leaves the descriptor as it is and registers neither
\* an Observer nor the callback.
NonConfigurableRejected ==
    [][ (op'.kind = "listen" /\ OwnDesc.kind # "absent" /\ ~OwnDesc.configurable)
        => /\ threw'
           /\ OwnDesc' = OwnDesc
           /\ obs' = obs ]_vars

\* the calls a write of v owes the registered listeners, in registration order
Notifications(v) ==
    [k \in 1..Len(Listeners) |-> ListenerCall(Slot[1], Listeners[k].cb, v)]

\* the property had an own, configurable accessor with getter and setter
\* when its first listener was registered, and has listeners now
ObservedAccessor ==
    /\ Len(Listeners) > 0
    /\ before.d.kind = "accessor" /\ before.d.configurable
    /\ before.d.get = "get0" /\ before.d.set = "set0"

\* C15: a write of a changed value to an observed accessor property with
\* getter and setter calls every registered callback with (object, value) and
\* then the original setter once with value.
CallbacksThenSetter ==
    [][ (op'.kind = "assign" /\ ObservedAccessor
           /\ Props[Slot[1]][Slot[2]] # op'.v)
        => calls' = Notifications(op'.v) \o <<SetterCall(Slot[1], op'.v)>> ]_vars

\* C16: a write of a changed value through an object observed on a property
\* it inherits as an accessor calls the inherited setter exactly once.
InheritedSetterCalled ==
    [][ (op'.kind = "assign" /\ Len(Listeners) > 0 /\ before.d = Inherited
           /\ Props[Slot[1]][Slot[2]] # op'.v)
        => Len(SetterCalls') = 1 ]_vars

\* C17: writing to an observed property the value it holds calls no callback
\* and no original setter and changes neither the cached nor the stored value.
SameValueIsNoOp ==
    [][ (op'.kind = "assign" /\ Len(Listeners) > 0
           /\ Props[Slot[1]][Slot[2]] = op'.v)
        => /\ calls' = <<>>
           /\ obs' = obs
           /\ Props' = Props ]_vars

\* C18: a write that changes the value of an observed property calls every
\* callback registered at that moment once, in registration order, with
\* (object, value), and no other callback.
EveryListenerInOrder ==
    [][ (op'.kind = "assign" /\ Len(Listeners) > 0 /\ ~threw'
           /\ Props[Slot[1]][Slot[2]] # op'.v)
        => ListenerCalls' = Notifications(op'.v) ]_vars

\* C19: on a configurable read-only property Observer.observe registers the
\* callback without throwing, no operation changes the descriptor or the
\* value, a write attempt calls no callback and Observer.unobserve does not
\* throw.
ReadOnlyLeftAlone ==
    [][ ReadOnly(OwnDesc) =>
          /\ OwnDesc' = OwnDesc
          /\ Props' = Props
          /\ op'.kind = "listen" => (~threw' /\ Len(Listeners') = Len(Listeners) + 1)
          /\ op'.kind = "assign" => calls' = <<>>
          /\ op'.kind = "unlisten" => ~threw' ]_vars

\* a write was attempted on a read-only property that has a listener
ReadOnlyWriteAttempted ==
    /\ ReadOnly(OwnDesc)
    /\ Len(Listeners) > 0
    /\ op.kind = "assign" /\ threw

(* -------------------------- reading a path ---------------------------- *)

\* C21: path.get on a root without binding changes no property, descriptor,
\* Observer or binding, and returns the value reached by following the
\* segments, undefined as soon as an intermediate value is falsy.
ColdGetResolves ==
    [][ op'.kind = "get" =>
          \A b \in Bindable :
            (b = <<op'.path, op'.root>> /\ ~Active(b))
            => /\ ~threw'
               /\ ret' = Resolved[b[1]][b[2]]
               /\ <<heap', desc', obs', bind'>> = <<heap, desc, obs, bind>> ]_vars

\* C22: path.observe and path.unobserve with a falsy root both throw, and
\* change no binding, callback list, Observer or descriptor.
FalsyRootRejected ==
    [][ (op'.kind \in {"observe", "unobserve"} /\ op'.root \in Falsy)
          => /\ threw'
             /\ calls' = <<>>
             /\ <<heap', desc', obs', bind'>> = <<heap, desc, obs, bind>> ]_vars

(* ---------------------- reassigning an intermediate -------------------- *)

ReentrantCb == {"c1", Unsubscriber}

\* path.observe(root, cb)
ReentrantObserve ==
    /\ steps < MaxReentrantSteps
    /\ \E b \in Bindable, cb \in ReentrantCb :
        /\ Len(bind[b[1]][b[2]].cbs) < MaxCallbacks
        /\ Commit(Path_observe(Machine, b[1], b[2], cb),
                  [NoOp EXCEPT !.kind = "observe", !.path = b[1], !.root = b[2], !.cb = cb])

\* Observer.observe(X, 'c', cb)
ReentrantListen ==
    /\ steps < MaxReentrantSteps
    /\ \E cb \in ReentrantCb :
        /\ Len(obs[Slot[1]][Slot[2]].cbs) < MaxListeners
        /\ Commit(Observer_observe(Machine, Slot[1], Slot[2], Listener(cb)),
                  [NoOp EXCEPT !.kind = "listen", !.o = Slot[1], !.p = Slot[2], !.cb = cb])

ReentrantAssign == steps < MaxReentrantSteps /\ Assign

ReentrantNext == ReentrantObserve \/ ReentrantListen \/ ReentrantAssign

ReentrantSpec == Init /\ [][ReentrantNext]_vars

\* C24: when a callback removes itself while a change is delivered, every
\* other callback registered for that change is still invoked exactly once:
\* the callbacks of the same binding when a callback of a path calls
\* path.unobserve, the functions registered with the same Observer when one
\* of them calls Observer.unobserve.
SelfRemovalKeepsOthers ==
    [][ op'.kind = "assign" =>
          /\ \A b \in Bindable :
                (Active(b) /\ CallsOf(b[1], b[2], Unsubscriber)' > 0)
                => CallsOf(b[1], b[2], "c1")' = Count(bind[b[1]][b[2]].cbs, "c1")
          /\ Count(ListenerCalls', ListenerCall(op'.o, Unsubscriber, op'.v)) > 0
                => Count(ListenerCalls', ListenerCall(op'.o, "c1", op'.v))
                     = Count(obs[Slot[1]][Slot[2]].cbs, Listener("c1")) ]_vars

(* --------------------------- the cached value -------------------------- *)

\* C25: after every operation that completed, path.get(root) of every active
\* binding is the value reached by following the segments from the root,
\* undefined when a segment is missing or read from a non-object.
CacheCoherent ==
    ~threw => \A b \in Bindable :
                 Active(b) => Gets[b[1]][b[2]] = Resolved[b[1]][b[2]]

\* C26: path.observe on a root without binding, along a chain of configurable
\* properties, completes without error and leaves path.get(root) returning
\* what it returned before.
ObserveKeepsValue ==
    [][ op'.kind = "observe" =>
          \A b \in Bindable :
            (/\ b = <<op'.path, op'.root>>
             /\ ~Active(b)
             /\ \A sl \in OnChain[b[1]][b[2]] :
                   IsObject(sl[1]) => desc[sl[1]][sl[2]].configurable)
            => /\ ~threw'
               /\ Gets'[b[1]][b[2]] = Gets[b[1]][b[2]] ]_vars

(* ----------------------------- the registry ---------------------------- *)

\* C27: the registry holds an Observer for an (object, property) pair exactly
\* when that Observer has at least one registered callback, whatever the
\* shape of the property.
RegistryHoldsSubscribed ==
    \A o \in Obj, p \in Prop : obs[o][p].live <=> Len(obs[o][p].cbs) > 0

====
